---- MODULE Spec2Model ----
(***************************************************************************)
(* Model of the in-memory block tree of rust-chain                         *)
(* (src/backend/memory.rs): MemoryBackend, its genesis constructor, its    *)
(* lookups and the commit protocol that imports a batch of blocks and      *)
(* optionally moves the canonical head.                                    *)
(*                                                                         *)
(* Hashes are small positive integers.  As in the DummyBlock of the tests  *)
(* a parent hash of 0 stands for "no parent" (parent_hash() = None); the   *)
(* same 0 stands for an absent set_head.                                   *)
(***************************************************************************)
EXTENDS Integers, Sequences, FiniteSets, TLC

\* ------------------------------------------------------------------ bounds
NumHashes == 4     \* hashes are 1..NumHashes
NumStates == 2     \* state snapshots are 0..NumStates-1
MaxBatch == 2      \* longest import_block of an operation
MaxItems == 3      \* (block, state) pairs submitted to one backend, in all
MaxCommits == 3    \* commits issued against one backend

Hashes == 1..NumHashes
NoHash == 0
Snapshots == 0..(NumStates - 1)
NoDepth == -1

\* ------------------------------------------------------------ data types
\* A block as the core sees it: hash() and parent_hash().
Block(h, p) == [hash |-> h, parent_hash |-> p]

\* struct BlockData
BlockData(b, s, d, c, k) ==
    [block |-> b, state |-> s, depth |-> d, children |-> c, is_canon |-> k]

\* One (block, state) pair of Operation.import_block.
ImportItems ==
    {[block |-> Block(h, p), state |-> s] :
        h \in Hashes, p \in {NoHash} \cup Hashes, s \in Snapshots}

RECURSIVE SeqsUpTo(_, _)
SeqsUpTo(S, n) ==
    IF n = 0 THEN {<<>>}
    ELSE LET shorter == SeqsUpTo(S, n - 1)
         IN shorter \cup {Append(q, x) : q \in {t \in shorter : Len(t) = n - 1}, x \in S}

\* The batches of at most n items, for every n up to MaxBatch.
Batches == [n \in 0..MaxBatch |-> SeqsUpTo(ImportItems, n)]

\* struct Operation { import_block, set_head }: the operations whose batch
\* has at most n items.
Operations(n) ==
    {[import_block |-> b, set_head |-> sh] :
        b \in Batches[IF n < MaxBatch THEN n ELSE MaxBatch], sh \in {NoHash} \cup Hashes}

NoOp == [import_block |-> <<>>, set_head |-> NoHash, none |-> TRUE]

\* HashMap::insert
Put(f, k, v) == [x \in (DOMAIN f) \cup {k} |-> IF x = k THEN v ELSE f[x]]

\* HashMap::remove
Del(f, k) == [x \in (DOMAIN f) \ {k} |-> f[x]]

EmptyMap == [x \in {} |-> 0]

\* The orders in which a HashMap with key set S may be iterated.
IterOrders(S) ==
    {q \in [1..Cardinality(S) -> S] : \A x \in S : \E i \in 1..Cardinality(S) : q[i] = x}

VARIABLES blocks_and_states, head, genesis, canon_depth_mappings,
          operation, exit, returned_at, commits, items

vars == <<blocks_and_states, head, genesis, canon_depth_mappings,
          operation, exit, returned_at, commits, items>>

\* struct MemoryBackend
Self ==
    [blocks_and_states |-> blocks_and_states, head |-> head,
     genesis |-> genesis, canon_depth_mappings |-> canon_depth_mappings]

\* -------------------------------------------------------------- lookups
contains(self, hash) == hash \in DOMAIN self.blocks_and_states

depth_at(self, hash) ==
    IF contains(self, hash) THEN self.blocks_and_states[hash].depth ELSE NoDepth

\* The Result of a lookup: Ok(value) or Err(Error::NotExist).
Ok(v) == [err |-> "none", value |-> v]

NotExist == [err |-> "NotExist"]

\* (Variant for C15: an absent hash reads as a block that is not canonical.)
is_canon_absent_is_false(self, hash) ==
    IF contains(self, hash) THEN Ok(self.blocks_and_states[hash].is_canon)
    ELSE Ok(FALSE)

is_canon(self, hash) ==
    IF contains(self, hash) THEN Ok(self.blocks_and_states[hash].is_canon)
    ELSE NotExist

\* None is NoHash.
lookup_canon_depth(self, depth) ==
    Ok(IF depth \in DOMAIN self.canon_depth_mappings
       THEN self.canon_depth_mappings[depth] ELSE NoHash)

children_at(self, hash) ==
    IF contains(self, hash) THEN Ok(self.blocks_and_states[hash].children)
    ELSE NotExist

block_at(self, hash) ==
    IF contains(self, hash) THEN Ok(self.blocks_and_states[hash].block)
    ELSE NotExist

state_at(self, hash) ==
    IF contains(self, hash) THEN Ok(self.blocks_and_states[hash].state)
    ELSE NotExist

\* The six hash-keyed lookups as the Backend trait returns them.  contains
\* is always Ok; depth_at above gives NoDepth for Err(NotExist).
Lookups(self, hash) ==
    [contains    |-> Ok(contains(self, hash)),
     is_canon    |-> is_canon(self, hash),
     children_at |-> children_at(self, hash),
     depth_at    |-> IF depth_at(self, hash) = NoDepth THEN NotExist
                     ELSE Ok(depth_at(self, hash)),
     block_at    |-> block_at(self, hash),
     state_at    |-> state_at(self, hash)]

\* ------------------------------------------------------------ constructor
\* MemoryBackend::with_genesis.  The assertion rejects a block that has a
\* parent: no backend is built then.
NoBackend == [aborted |-> TRUE]

with_genesis(block, genesis_storage) ==
    IF block.parent_hash # NoHash THEN NoBackend
    ELSE [blocks_and_states |->
              Put(EmptyMap, block.hash,
                  BlockData(block, genesis_storage, 0, <<>>, TRUE)),
          canon_depth_mappings |-> Put(EmptyMap, 0, block.hash),
          genesis |-> block.hash,
          head |-> block.hash]

\* ------------------------------------------------- commit, phases 1 and 2
\* The match on op.block.parent_hash() (lines 171-183): the depth of the
\* parent, looked up in the tree first and in importing second; NoDepth when
\* it is in neither; the early return for a block without parent.
\* (Variant for C10: a block without parent is left unresolved instead.)
ParentDepth_genesis_unresolved(self, importing, block) ==
    IF contains(self, block.parent_hash)
    THEN [err |-> "none", depth |-> depth_at(self, block.parent_hash)]
    ELSE IF block.parent_hash \in DOMAIN importing
    THEN [err |-> "none", depth |-> importing[block.parent_hash].depth]
    ELSE [err |-> "none", depth |-> NoDepth]

ParentDepth(self, importing, block) ==
    IF block.parent_hash = NoHash THEN [err |-> "ImportingGenesis", depth |-> NoDepth]
    ELSE IF contains(self, block.parent_hash)
    THEN [err |-> "none", depth |-> depth_at(self, block.parent_hash)]
    ELSE IF block.parent_hash \in DOMAIN importing
    THEN [err |-> "none", depth |-> importing[block.parent_hash].depth]
    ELSE [err |-> "none", depth |-> NoDepth]

\* One pass of `for op in verifying` (lines 170-201), from item i on.  acc
\* carries the locals of commit: importing, parent_hashes, progress and
\* next_verifying; err records the early return of line 182.
RECURSIVE VerifyFrom(_, _, _, _)
VerifyFrom(self, verifying, i, acc) ==
    IF i > Len(verifying) THEN acc
    ELSE
        LET op == verifying[i]
            parent == ParentDepth(self, acc.importing, op.block)
        IN  IF parent.err # "none"
            THEN [acc EXCEPT !.err = parent.err, !.at = "L182"]
            ELSE IF parent.depth # NoDepth
                 THEN VerifyFrom(self, verifying, i + 1,
                        [acc EXCEPT
                           !.progress = TRUE,
                           !.parent_hashes =
                               Put(@, op.block.hash, op.block.parent_hash),
                           !.importing =
                               Put(@, op.block.hash,
                                   BlockData(op.block, op.state, parent.depth + 1,
                                             <<>>, FALSE))])
                 ELSE VerifyFrom(self, verifying, i + 1,
                        [acc EXCEPT !.next_verifying = Append(@, op)])

\* The end of a round (lines 203-211): leave the loop, fail, or go on.
\* (Variant for C9: a round without progress leaves the loop.)
round_end_break_without_progress(next_verifying, progress) ==
    IF Len(next_verifying) = 0 \/ ~progress THEN "break" ELSE "continue"

\* (Variant for C19: the loop goes on until a round makes no progress.)
round_end_until_no_progress(next_verifying, progress) ==
    IF progress THEN "continue"
    ELSE IF Len(next_verifying) = 0 THEN "break"
    ELSE "InvalidOperation"

round_end(next_verifying, progress) ==
    IF Len(next_verifying) = 0 THEN "break"
    ELSE IF ~progress THEN "InvalidOperation"
    ELSE "continue"

\* The dependency-resolution loop (lines 166-212).  rounds counts the passes.
RECURSIVE Resolve(_, _, _, _, _)
Resolve(self, verifying, importing, parent_hashes, rounds) ==
    LET r == VerifyFrom(self, verifying, 1,
                 [err |-> "none", at |-> "L212", progress |-> FALSE,
                  importing |-> importing, parent_hashes |-> parent_hashes,
                  next_verifying |-> <<>>, rounds |-> rounds + 1])
        end == round_end(r.next_verifying, r.progress)
    IN  IF r.err # "none" THEN r
        ELSE IF end = "break" THEN r
        ELSE IF end = "InvalidOperation"
             THEN [r EXCEPT !.err = "InvalidOperation", !.at = "L208"]
        ELSE Resolve(self, r.next_verifying, r.importing, r.parent_hashes,
                     rounds + 1)

\* A commit without the head precheck: every set_head target is accepted.
head_exists_skipped(self, importing, new_head) == TRUE

\* The head precheck (lines 215-222).
head_exists(self, importing, new_head) ==
    contains(self, new_head) \/ new_head \in DOMAIN importing

\* Phases 1 and 2 together: the validation that precedes every mutation.
Precheck(self, op) ==
    LET r == Resolve(self, op.import_block, EmptyMap, EmptyMap, 0)
    IN  IF r.err # "none" THEN r
        ELSE IF op.set_head # NoHash /\ ~head_exists(self, r.importing, op.set_head)
             THEN [r EXCEPT !.err = "InvalidOperation", !.at = "L220"]
             ELSE r

\* ------------------------------------------------------------- tree route
\* super::tree_route: both sides walk toward the genesis, the deeper one
\* first, then together, until they meet.  A walk that cannot step (an
\* absent block, a block without parent) fails; a walk that has not met
\* after every pair of positions has been visited never ends.
RouteFuel == NumHashes * NumHashes + 1

parent_of(self, hash) == self.blocks_and_states[hash].block.parent_hash

can_step(self, hash) == contains(self, parent_of(self, hash))

Reverse(q) == [i \in 1..Len(q) |-> q[Len(q) + 1 - i]]

RECURSIVE RouteWalk(_, _, _, _, _, _)
RouteWalk(self, from, to, retracted, to_branch, fuel) ==
    IF from = to
    THEN [kind |-> "route", common_ancestor |-> from,
          retracted |-> retracted, enacted |-> Reverse(to_branch)]
    ELSE IF fuel = 0 THEN [kind |-> "diverge"]
    ELSE IF depth_at(self, to) > depth_at(self, from)
    THEN IF ~can_step(self, to) THEN [kind |-> "NotExist"]
         ELSE RouteWalk(self, from, parent_of(self, to), retracted,
                        Append(to_branch, to), fuel - 1)
    ELSE IF depth_at(self, from) > depth_at(self, to)
    THEN IF ~can_step(self, from) THEN [kind |-> "NotExist"]
         ELSE RouteWalk(self, parent_of(self, from), to,
                        Append(retracted, from), to_branch, fuel - 1)
    ELSE IF ~can_step(self, from) \/ ~can_step(self, to) THEN [kind |-> "NotExist"]
         ELSE RouteWalk(self, parent_of(self, from), parent_of(self, to),
                        Append(retracted, from), Append(to_branch, to), fuel - 1)

tree_route(self, from, to) ==
    IF ~contains(self, from) \/ ~contains(self, to) THEN [kind |-> "NotExist"]
    ELSE RouteWalk(self, from, to, <<>>, <<>>, RouteFuel)

\* ------------------------------------------------- commit, phases 3 and 4
\* self.blocks_and_states.extend(importing) (line 224): an entry of
\* importing replaces the entry of the same hash.
Extend(blocks, importing) ==
    [h \in (DOMAIN blocks) \cup (DOMAIN importing) |->
        IF h \in DOMAIN importing THEN importing[h] ELSE blocks[h]]

\* "Fix children at hashes" (lines 227-231), the entries of parent_hashes
\* taken in the given order, from entry i on.  A missing parent ends it.
RECURSIVE FixChildren(_, _, _, _)
FixChildren(blocks, parent_hashes, order, i) ==
    IF i > Len(order) THEN [panic |-> FALSE, blocks |-> blocks]
    ELSE LET hash == order[i]
             parent_hash == parent_hashes[hash]
         IN  IF parent_hash \notin DOMAIN blocks
             THEN [panic |-> TRUE, blocks |-> blocks]
             ELSE FixChildren(
                    [blocks EXCEPT ![parent_hash].children = Append(@, hash)],
                    parent_hashes, order, i + 1)

\* The loop over route.retracted() (lines 237-242), from entry i on.
RECURSIVE Retract(_, _, _)
Retract(self, retracted, i) ==
    IF i > Len(retracted) THEN self
    ELSE LET hash == retracted[i]
             depth == self.blocks_and_states[hash].depth
         IN  Retract([self EXCEPT
                        !.blocks_and_states[hash].is_canon = FALSE,
                        !.canon_depth_mappings = Del(@, depth)],
                     retracted, i + 1)

\* The loop over route.enacted() (lines 244-249), from entry i on.
RECURSIVE Enact(_, _, _)
Enact(self, enacted, i) ==
    IF i > Len(enacted) THEN self
    ELSE LET hash == enacted[i]
             depth == self.blocks_and_states[hash].depth
         IN  Enact([self EXCEPT
                      !.blocks_and_states[hash].is_canon = TRUE,
                      !.canon_depth_mappings = Put(@, depth, hash)],
                   enacted, i + 1)

\* The reorg (lines 233-252).
SetHead(self, new_head) ==
    LET route == tree_route(self, self.head, new_head)
    IN  IF route.kind = "diverge"
        THEN [exit |-> "diverge", at |-> "L234", self |-> self]
        ELSE IF route.kind # "route"
        THEN [exit |-> "panic", at |-> "L235", self |-> self]
        ELSE [exit |-> "Ok", at |-> "L254",
              self |-> [Enact(Retract(self, route.retracted, 1), route.enacted, 1)
                          EXCEPT !.head = new_head]]

\* (Variant for C20: the reorg runs on the tree as it was before the merge.)
Apply_route_before_merge(self, pre, new_head, order) ==
    LET routed == IF new_head # NoHash THEN SetHead(self, new_head)
                  ELSE [exit |-> "Ok", at |-> "L254", self |-> self]
        fixed == FixChildren(Extend(routed.self.blocks_and_states, pre.importing),
                             pre.parent_hashes, order, 1)
        merged == [routed.self EXCEPT !.blocks_and_states = fixed.blocks]
    IN  IF routed.exit # "Ok" THEN routed
        ELSE IF fixed.panic THEN [exit |-> "panic", at |-> "L229", self |-> merged]
        ELSE [exit |-> "Ok", at |-> "L254", self |-> merged]

\* Phases 3 and 4 (lines 224-254), after a validation that ended in pre.
Apply(self, pre, new_head, order) ==
    LET fixed == FixChildren(Extend(self.blocks_and_states, pre.importing),
                             pre.parent_hashes, order, 1)
        merged == [self EXCEPT !.blocks_and_states = fixed.blocks]
    IN  IF fixed.panic THEN [exit |-> "panic", at |-> "L229", self |-> merged]
        ELSE IF new_head # NoHash THEN SetHead(merged, new_head)
        ELSE [exit |-> "Ok", at |-> "L254", self |-> merged]

\* MemoryBackend::commit.  order is the iteration order of parent_hashes.
\* exit is the result: Ok, one of the errors, or the commit did not return
\* (a failed expect, a tree_route that never ends); at is the line it left by.
\* (Variant for C1: the resolved items are merged before an error returns.)
commit_merging_before_return(self, op, order) ==
    LET pre == Precheck(self, op)
    IN  IF pre.err # "none"
        THEN [exit |-> pre.err, at |-> pre.at,
              self |-> [self EXCEPT !.blocks_and_states = Extend(@, pre.importing)]]
        ELSE Apply(self, pre, op.set_head, order)

commit(self, op, order) ==
    LET pre == Precheck(self, op)
    IN  IF pre.err # "none" THEN [exit |-> pre.err, at |-> pre.at, self |-> self]
        ELSE Apply(self, pre, op.set_head, order)

\* The iteration orders commit may meet for this operation.
CommitOrders(self, op) ==
    LET pre == Precheck(self, op)
    IN  IF pre.err # "none" THEN {<<>>} ELSE IterOrders(DOMAIN pre.parent_hashes)

\* ----------------------------------------------------------------- actions
GenesisInputs == {Block(1, p) : p \in {NoHash} \cup Hashes}

Init ==
    /\ \E block \in GenesisInputs :
         LET b == with_genesis(block, 0)
         IN  /\ b # NoBackend
             /\ blocks_and_states = b.blocks_and_states
             /\ head = b.head
             /\ genesis = b.genesis
             /\ canon_depth_mappings = b.canon_depth_mappings
    /\ operation = NoOp
    /\ exit = "Ok"
    /\ returned_at = "L288"
    /\ commits = 0
    /\ items = 0

Returned == exit \in {"Ok", "InvalidOperation", "ImportingGenesis"}

\* The caller builds an Operation and hands it to commit; one commit is in
\* flight at a time.
Submit ==
    /\ operation = NoOp
    /\ Returned
    /\ commits < MaxCommits
    /\ \E op \in Operations(MaxItems - items) :
         /\ operation' = op
         /\ items' = items + Len(op.import_block)
    /\ UNCHANGED <<blocks_and_states, head, genesis, canon_depth_mappings,
                   exit, returned_at, commits>>

Commit ==
    /\ operation # NoOp
    /\ \E order \in CommitOrders(Self, operation) :
         LET r == commit(Self, operation, order)
         IN  /\ blocks_and_states' = r.self.blocks_and_states
             /\ head' = r.self.head
             /\ genesis' = r.self.genesis
             /\ canon_depth_mappings' = r.self.canon_depth_mappings
             /\ exit' = r.exit
             /\ returned_at' = r.at
    /\ operation' = NoOp
    /\ commits' = commits + 1
    /\ UNCHANGED items

Next == Submit \/ Commit

Spec == Init /\ [][Next]_vars

\* ------------------------------------------------------------ vocabulary
\* What the properties below are stated in.
Nodes == DOMAIN blocks_and_states

Tree == <<blocks_and_states, head, genesis, canon_depth_mappings>>

Errors == {"InvalidOperation", "ImportingGenesis"}

Range(q) == {q[i] : i \in DOMAIN q}

\* A Commit step is a step taken with an operation in flight.
Committing == operation # NoOp

HasParentless(op) ==
    \E i \in 1..Len(op.import_block) : op.import_block[i].block.parent_hash = NoHash

\* The items of a batch whose parent chain resolves: the least set R of
\* positions whose parent is in the tree or is the hash of an item of R.
RECURSIVE ResolvableItems(_, _, _)
ResolvableItems(self, batch, R) ==
    LET next == {i \in 1..Len(batch) :
                    \/ contains(self, batch[i].block.parent_hash)
                    \/ \E j \in R : batch[j].block.hash = batch[i].block.parent_hash}
    IN  IF next = R THEN R ELSE ResolvableItems(self, batch, next)

HasUnresolvable(self, op) ==
    ResolvableItems(self, op.import_block, {}) # 1..Len(op.import_block)

\* The parent chain of h: h, its parent, and so on while the blocks exist.
RECURSIVE ChainOf(_, _, _)
ChainOf(self, h, seen) ==
    IF ~contains(self, h) \/ h \in seen THEN seen
    ELSE ChainOf(self, parent_of(self, h), seen \cup {h})

CanonNodes(self) ==
    {h \in DOMAIN self.blocks_and_states : self.blocks_and_states[h].is_canon}

IndexedAt(self, d, h) ==
    d \in DOMAIN self.canon_depth_mappings /\ self.canon_depth_mappings[d] = h

\* ----------------------------------------------------------------- claims
\* C1: atomicity.  A commit that returns InvalidOperation or ImportingGenesis
\* leaves the whole tree as it was: the nodes and every field of each, head,
\* genesis and the canonical index.
C1_Atomicity ==
    [][(Committing /\ exit' \in Errors) => Tree' = Tree]_vars

\* A commit on a tree of several nodes was rejected by the head precheck,
\* the last point before the merge.
C1_Witness ==
    /\ exit = "InvalidOperation"
    /\ returned_at = "L220"
    /\ Cardinality(Nodes) > 1

\* C2: canonical index consistency.  Between commits canon_index[d] = h
\* exactly when h is a present node with is_canon set and depth d.
C2_CanonIndexConsistent ==
    Returned =>
        \A h \in Hashes :
            \A d \in (DOMAIN canon_depth_mappings)
                     \cup {blocks_and_states[n].depth : n \in Nodes} :
                IndexedAt(Self, d, h)
                    <=> (/\ h \in Nodes
                         /\ blocks_and_states[h].is_canon
                         /\ blocks_and_states[h].depth = d)

\* C3: canonical path contiguity.  Between commits the index is defined at
\* every depth up to the head's, starts at genesis, ends at head, and each
\* entry's parent is the entry one depth below.
C3_CanonPathContiguous ==
    Returned =>
        /\ head \in Nodes
        /\ \A d \in 0..blocks_and_states[head].depth :
              d \in DOMAIN canon_depth_mappings
        /\ canon_depth_mappings[0] = genesis
        /\ canon_depth_mappings[blocks_and_states[head].depth] = head
        /\ \A d \in 1..blocks_and_states[head].depth :
              /\ canon_depth_mappings[d] \in Nodes
              /\ parent_of(Self, canon_depth_mappings[d]) = canon_depth_mappings[d - 1]

\* C4: reorg result.  After a successful commit with set_head = X, head is X,
\* the canonical nodes are exactly the parent chain of X back to genesis, and
\* every node that was canonical and is off that chain is neither canonical
\* nor indexed at its depth.
C4_ReorgResult ==
    [][(Committing /\ operation.set_head # NoHash /\ exit' = "Ok") =>
         LET X == operation.set_head
             chain == ChainOf(Self', X, {})
         IN  /\ head' = X
             /\ genesis' \in chain
             /\ CanonNodes(Self') = chain
             /\ \A h \in CanonNodes(Self) \ chain :
                   /\ ~blocks_and_states'[h].is_canon
                   /\ ~IndexedAt(Self', blocks_and_states'[h].depth, h)]_vars

\* C5: depth monotonicity.  Between commits genesis has depth 0 and every
\* other node is one deeper than its parent.
C5_DepthMonotonic ==
    Returned =>
        /\ blocks_and_states[genesis].depth = 0
        /\ \A b \in Nodes \ {genesis} :
              /\ parent_of(Self, b) \in Nodes
              /\ blocks_and_states[b].depth
                     = blocks_and_states[parent_of(Self, b)].depth + 1

\* C6: parent/child linkage.  Between commits every node other than genesis
\* is among the children of its parent, and the children of a node are
\* present nodes whose parent it is.
C6_Linkage ==
    Returned =>
        /\ \A h \in Nodes \ {genesis} :
              /\ parent_of(Self, h) \in Nodes
              /\ h \in Range(blocks_and_states[parent_of(Self, h)].children)
        /\ \A p \in Nodes :
              \A c \in Range(blocks_and_states[p].children) :
                  c \in Nodes /\ parent_of(Self, c) = p

\* C7: genesis invariant.  The constructor yields head = genesis and the
\* index {0: genesis}; after any commits the genesis node is present, has no
\* parent, has depth 0 and is canonical.
C7_GenesisInvariant ==
    Returned =>
        /\ commits = 0 =>
              /\ head = genesis
              /\ canon_depth_mappings = Put(EmptyMap, 0, genesis)
        /\ genesis \in Nodes
        /\ parent_of(Self, genesis) = NoHash
        /\ blocks_and_states[genesis].depth = 0
        /\ blocks_and_states[genesis].is_canon

\* C8: append-only tree.  A commit that returns keeps every node that was
\* present, with the same block, state snapshot and depth, and with every
\* child it had.
C8_AppendOnly ==
    [][(Committing /\ exit' \in Errors \cup {"Ok"}) =>
         \A h \in Nodes :
             /\ h \in DOMAIN blocks_and_states'
             /\ blocks_and_states'[h].block = blocks_and_states[h].block
             /\ blocks_and_states'[h].state = blocks_and_states[h].state
             /\ blocks_and_states'[h].depth = blocks_and_states[h].depth
             /\ Range(blocks_and_states[h].children)
                    \subseteq Range(blocks_and_states'[h].children)]_vars

\* C9: unresolvable parent.  A commit whose batch has no parentless block and
\* has an item whose parent chain does not resolve fails with
\* InvalidOperation.
C9_UnresolvableParent ==
    [][(Committing /\ ~HasParentless(operation) /\ HasUnresolvable(Self, operation))
           => exit' = "InvalidOperation"]_vars

\* A commit left the resolution loop by the no-progress return.
C9_Witness ==
    /\ exit = "InvalidOperation"
    /\ returned_at = "L208"

\* C10: second genesis.  A commit whose batch holds a block without parent,
\* at any position, fails with ImportingGenesis and imports nothing.
C10_SecondGenesis ==
    [][(Committing /\ HasParentless(operation))
           => (exit' = "ImportingGenesis" /\ Tree' = Tree)]_vars

\* A commit on a tree of several nodes was rejected as a second genesis.
C10_Witness ==
    /\ exit = "ImportingGenesis"
    /\ returned_at = "L182"
    /\ Cardinality(Nodes) > 1

\* The hashes of the items of a batch that resolve.
ResolvedHashes(self, batch) ==
    {batch[i].block.hash : i \in ResolvableItems(self, batch, {})}

BatchHashes(op) == {op.import_block[i].block.hash : i \in 1..Len(op.import_block)}

\* set_head names a hash that is neither in the tree nor a resolved item.
UnknownHead(self, op) ==
    /\ op.set_head # NoHash
    /\ ~contains(self, op.set_head)
    /\ op.set_head \notin ResolvedHashes(self, op.import_block)

\* C11: head precheck.  A commit whose items all resolve and whose set_head
\* names a hash neither in the tree nor among the resolved items fails with
\* InvalidOperation and admits nothing: the nodes, their children, head and
\* the canonical index are as before.
C11_HeadPrecheck ==
    [][(Committing /\ ~HasUnresolvable(Self, operation) /\ UnknownHead(Self, operation))
           => (exit' = "InvalidOperation" /\ Tree' = Tree)]_vars

\* The first commit carried items, all of them resolved, and it was rejected
\* by the head precheck.
C11_Witness ==
    /\ commits = 1
    /\ items > 0
    /\ exit = "InvalidOperation"
    /\ returned_at = "L220"

\* C12: atomicity as observed through the lookups.  After a commit that
\* fails validation, contains(h) is what it was for every hash h of the
\* batch, so false for every hash that was absent, and head and the
\* canonical index are unchanged.
C12_FailedCommitObserved ==
    [][(Committing /\ exit' \in Errors)
           => /\ \A h \in BatchHashes(operation) :
                    contains(Self', h) = contains(Self, h)
              /\ head' = head
              /\ canon_depth_mappings' = canon_depth_mappings]_vars

\* C12 as stated: after a failed commit contains(h) is false for every hash
\* of the batch.
C12_ContainsFalse ==
    [][(Committing /\ exit' \in Errors)
           => /\ \A h \in BatchHashes(operation) : ~contains(Self', h)
              /\ head' = head
              /\ canon_depth_mappings' = canon_depth_mappings]_vars

\* A later commit that used up the item budget failed validation on a tree
\* of several nodes.
C12_Witness ==
    /\ commits > 1
    /\ items = MaxItems
    /\ exit \in Errors
    /\ Cardinality(Nodes) > 1

\* The orderings of a batch.
Orderings(batch) ==
    {[i \in 1..Len(batch) |-> batch[p[i]]] : p \in IterOrders(1..Len(batch))}

\* The items of a batch reached from item i by following parent hashes.
RECURSIVE BatchAncestors(_, _)
BatchAncestors(batch, S) ==
    LET up == {j \in 1..Len(batch) :
                  \E i \in S : batch[j].block.hash = batch[i].block.parent_hash}
    IN  IF up \subseteq S THEN S ELSE BatchAncestors(batch, S \cup up)

ParentItems(batch, i) ==
    {j \in 1..Len(batch) : batch[j].block.hash = batch[i].block.parent_hash}

\* An internally consistent batch: distinct hashes, every parent in the tree
\* or in the batch, no item among its own ancestors.
Consistent(self, batch) ==
    /\ \A i, j \in 1..Len(batch) :
          i # j => batch[i].block.hash # batch[j].block.hash
    /\ \A i \in 1..Len(batch) :
          \/ contains(self, batch[i].block.parent_hash)
          \/ batch[i].block.parent_hash \in {batch[j].block.hash : j \in 1..Len(batch)}
    /\ \A i \in 1..Len(batch) :
          ParentItems(batch, i) = {} \/ i \notin BatchAncestors(batch, ParentItems(batch, i))

\* What C13 compares: the node set, every depth, the children as sets, head
\* and the canonical index.
Shape(self) ==
    [depth |-> [h \in DOMAIN self.blocks_and_states |-> self.blocks_and_states[h].depth],
     children |-> [h \in DOMAIN self.blocks_and_states |->
                      Range(self.blocks_and_states[h].children)],
     head |-> self.head,
     canon_depth_mappings |-> self.canon_depth_mappings]

\* C13: order independence.  A commit of an internally consistent batch,
\* with set_head absent or naming a hash of the tree or of the batch,
\* succeeds, and committing any ordering of the batch, under any iteration
\* order, succeeds with the same nodes, depths, children sets, head and
\* canonical index.
C13_OrderIndependent ==
    [][(/\ Committing
        /\ Consistent(Self, operation.import_block)
        /\ operation.set_head \in {NoHash} \cup Nodes \cup BatchHashes(operation))
           => /\ exit' = "Ok"
              /\ \A b \in Orderings(operation.import_block) :
                    LET op == [operation EXCEPT !.import_block = b]
                    IN  \A order \in CommitOrders(Self, op) :
                           /\ commit(Self, op, order).exit = "Ok"
                           /\ Shape(commit(Self, op, order).self) = Shape(Self')]_vars

\* The part of C13 that is about the orderings alone: every ordering of a
\* consistent batch ends as the commit did, with the same nodes, depths,
\* children sets, head and canonical index, and with set_head absent the
\* commit succeeds.
OrderingsAgree ==
    [][(Committing /\ Consistent(Self, operation.import_block))
           => /\ (operation.set_head = NoHash => exit' = "Ok")
              /\ \A b \in Orderings(operation.import_block) :
                    LET op == [operation EXCEPT !.import_block = b]
                    IN  \A order \in CommitOrders(Self, op) :
                           /\ commit(Self, op, order).exit = exit'
                           /\ Shape(commit(Self, op, order).self) = Shape(Self')]_vars

\* The is_canon flags of the nodes of a tree.
Flags(self) ==
    [h \in DOMAIN self.blocks_and_states |-> self.blocks_and_states[h].is_canon]

\* Phases 1 and 2 accept the operation.
Validated(self, op) == Precheck(self, op).err = "none"

\* C14: reorg no-op.  A validated commit whose set_head is the current head
\* succeeds, changes no is_canon flag of a node that was present and no
\* entry of the canonical index, and leaves head as it was; with an empty
\* batch the whole tree is unchanged.
C14_ReorgNoOp ==
    [][(Committing /\ operation.set_head = head /\ Validated(Self, operation))
           => /\ exit' = "Ok"
              /\ \A h \in Nodes : Flags(Self')[h] = Flags(Self)[h]
              /\ canon_depth_mappings' = canon_depth_mappings
              /\ head' = head
              /\ (operation.import_block = <<>> => Tree' = Tree)]_vars

\* C17: import without head change.  A successful commit with set_head
\* absent leaves head, the canonical index and the is_canon flag of every
\* node that was present unchanged; every node it admits has is_canon false
\* and is listed among the children of its parent.
C17_ImportOnly ==
    [][(Committing /\ operation.set_head = NoHash /\ exit' = "Ok")
           => /\ head' = head
              /\ canon_depth_mappings' = canon_depth_mappings
              /\ \A h \in Nodes : Flags(Self')[h] = Flags(Self)[h]
              /\ \A h \in BatchHashes(operation) :
                    /\ contains(Self', h)
                    /\ ~Flags(Self')[h]
                    /\ contains(Self', parent_of(Self', h))
                    /\ h \in Range(blocks_and_states'[parent_of(Self', h)].children)]_vars

\* C18: no failure after validation.  A commit that passes phases 1 and 2
\* completes phases 3 and 4 and returns Ok: no expect fails and tree_route
\* returns a route.
C18_NoFailureAfterValidation ==
    [][(Committing /\ Validated(Self, operation))
           => (exit' = "Ok" /\ returned_at' = "L254")]_vars

\* The depths a node or an index entry can have within the bounds.
Depths == 0..(MaxItems + 1)

LookupNames == {"contains", "is_canon", "children_at", "depth_at", "block_at", "state_at"}

\* C15: lookup errors.  For an absent hash contains returns Ok(false) and
\* is_canon, children_at, depth_at, block_at and state_at fail with NotExist;
\* for a present hash all six succeed; lookup_canon_depth(d) succeeds for
\* every d, with None where no canonical node has depth d.
C15_LookupErrors ==
    /\ \A h \in Hashes \ Nodes :
          /\ Lookups(Self, h).contains = Ok(FALSE)
          /\ \A f \in LookupNames \ {"contains"} : Lookups(Self, h)[f] = NotExist
    /\ \A h \in Nodes :
          /\ Lookups(Self, h).contains = Ok(TRUE)
          /\ \A f \in LookupNames : Lookups(Self, h)[f].err = "none"
    /\ \A d \in Depths :
          /\ lookup_canon_depth(Self, d).err = "none"
          /\ (lookup_canon_depth(Self, d).value = NoHash)
                <=> (d \notin DOMAIN canon_depth_mappings)

\* C15 as stated: every hash-keyed lookup, contains among them, fails with
\* NotExist for an absent hash.
C15_AllFailWhenAbsent ==
    \A h \in Hashes \ Nodes :
       \A f \in LookupNames : Lookups(Self, h)[f] = NotExist

\* Lookups meet an absent hash, a present node that is not canonical and
\* has a child, and a depth without canonical node.
C15_Witness ==
    /\ \E h \in Hashes : is_canon(Self, h) = NotExist /\ Lookups(Self, h).contains = Ok(FALSE)
    /\ \E h \in Hashes : is_canon(Self, h) = Ok(FALSE) /\ children_at(Self, h) # Ok(<<>>)
    /\ \E d \in Depths : lookup_canon_depth(Self, d) = Ok(NoHash)
                            /\ \E h \in Nodes : depth_at(Self, h) = d

\* The parent chain of h as a sequence: h, its parent, and so on while the
\* blocks exist and none repeats.
RECURSIVE ChainSeq(_, _, _)
ChainSeq(self, h, acc) ==
    IF ~contains(self, h) \/ h \in Range(acc) THEN acc
    ELSE ChainSeq(self, parent_of(self, h), Append(acc, h))

\* The entries of chain q that precede hash a.
Before(q, a) ==
    LET n == CHOOSE i \in 1..Len(q) : q[i] = a /\ \A j \in 1..(i - 1) : q[j] # a
    IN  SubSeq(q, 1, n - 1)

CommonAncestors(self, from, to) ==
    Range(ChainSeq(self, from, <<>>)) \cap Range(ChainSeq(self, to, <<>>))

\* The deepest common ancestor: the first block of from's chain that is
\* also on to's chain.
DeepestCommon(self, from, to) ==
    LET q == ChainSeq(self, from, <<>>)
        n == CHOOSE i \in 1..Len(q) :
                /\ q[i] \in CommonAncestors(self, from, to)
                /\ \A j \in 1..(i - 1) : q[j] \notin CommonAncestors(self, from, to)
    IN  q[n]

\* C16: tree route shape.  For present from and to with deepest common
\* ancestor a, tree_route returns common_ancestor a, retracted the chain
\* from `from` to a (excluded), deepest first, and enacted the chain from a
\* (excluded) to `to`, shallowest first; tree_route(x, x) returns x and two
\* empty lists; an absent endpoint gives NotExist.
C16_TreeRouteShape ==
    \A from, to \in Hashes :
       IF ~contains(Self, from) \/ ~contains(Self, to)
       THEN tree_route(Self, from, to).kind = "NotExist"
       ELSE CommonAncestors(Self, from, to) # {} =>
              LET a == DeepestCommon(Self, from, to)
              IN  tree_route(Self, from, to) =
                     [kind |-> "route", common_ancestor |-> a,
                      retracted |-> Before(ChainSeq(Self, from, <<>>), a),
                      enacted |-> Reverse(Before(ChainSeq(Self, to, <<>>), a))]

\* The number of unresolved items at the start of each round of the
\* resolution loop (lines 166-212), first round first.
RECURSIVE Unresolved(_, _, _, _)
Unresolved(self, verifying, importing, parent_hashes) ==
    LET r == VerifyFrom(self, verifying, 1,
                 [err |-> "none", at |-> "L212", progress |-> FALSE,
                  importing |-> importing, parent_hashes |-> parent_hashes,
                  next_verifying |-> <<>>, rounds |-> 0])
    IN  IF r.err # "none" \/ round_end(r.next_verifying, r.progress) # "continue"
        THEN <<Len(verifying)>>
        ELSE <<Len(verifying)>>
                \o Unresolved(self, r.next_verifying, r.importing, r.parent_hashes)

\* The loop ended with every item resolved or with an error.
ResolvedOrError(self, batch) ==
    LET r == Resolve(self, batch, EmptyMap, EmptyMap, 0)
    IN  \/ r.err \in Errors
        \/ /\ r.err = "none"
           /\ r.next_verifying = <<>>
           /\ DOMAIN r.importing = {batch[i].block.hash : i \in 1..Len(batch)}

StrictlyDecreasing(q) == \A k \in 1..(Len(q) - 1) : q[k + 1] < q[k]

\* C19: resolution terminates.  For the batch of every commit the loop ends
\* with all items resolved or with an error, every round that does not end
\* the loop leaves fewer unresolved items than it started with, and the
\* number of rounds is at most the number of items, or one for an empty
\* batch.
C19_ResolutionTerminates ==
    Committing =>
       LET batch == operation.import_block
           q == Unresolved(Self, batch, EmptyMap, EmptyMap)
       IN  /\ ResolvedOrError(Self, batch)
           /\ StrictlyDecreasing(q)
           /\ Len(q) = Precheck(Self, [operation EXCEPT !.set_head = NoHash]).rounds
           /\ Len(q) <= IF batch = <<>> THEN 1 ELSE Len(batch)

\* C19 as stated: the number of rounds is at most the number of items.
C19_RoundsAtMostItems ==
    Committing =>
       LET batch == operation.import_block
           q == Unresolved(Self, batch, EmptyMap, EmptyMap)
       IN  /\ ResolvedOrError(Self, batch)
           /\ StrictlyDecreasing(q)
           /\ Len(q) <= Len(batch)

\* A batch listed deepest first is in flight: it takes as many rounds as it
\* has items, each round resolving one.
C19_Witness ==
    /\ Committing
    /\ Len(operation.import_block) = MaxBatch
    /\ Unresolved(Self, operation.import_block, EmptyMap, EmptyMap) = <<2, 1>>
    /\ Resolve(Self, operation.import_block, EmptyMap, EmptyMap, 0).err = "none"

\* What C20 compares: nodes, depths, children sets, is_canon flags, the
\* canonical index and head.
TreeState(self) ==
    [shape |-> Shape(self), is_canon |-> Flags(self)]

\* commit {import_block: batch, set_head: none} followed by
\* commit {import_block: empty, set_head: X}.
ImportThenSetHead(self, op, order) ==
    LET first == commit(self, [op EXCEPT !.set_head = NoHash], order)
    IN  IF first.exit # "Ok" THEN first
        ELSE commit(first.self, [op EXCEPT !.import_block = <<>>], <<>>)

\* C20: import-and-set-head equals import then set-head.  A commit whose
\* batch resolves and whose set_head X is in the tree or in the batch ends
\* as the import of the batch followed by the commit of set_head X alone,
\* under every iteration order: the same result, nodes, depths, children
\* sets, is_canon flags, canonical index and head.
C20_ImportThenSetHead ==
    [][(Committing /\ operation.set_head # NoHash /\ Validated(Self, operation))
           => \A order \in CommitOrders(Self, operation) :
                 /\ ImportThenSetHead(Self, operation, order).exit = exit'
                 /\ TreeState(ImportThenSetHead(Self, operation, order).self)
                       = TreeState(Self')]_vars

\* The first commit imported a batch of two and moved head to one of its
\* blocks.
C20_Witness ==
    /\ commits = 1
    /\ items = MaxBatch
    /\ exit = "Ok"
    /\ head # genesis
    /\ blocks_and_states[head].is_canon

====
